---- MODULE Spec2Model ----
(***************************************************************************)
(* Booth shop blocker: the listing-page content script (item hiding), the  *)
(* storage module BoothShopStorage and the contexts that edit the          *)
(* persisted blocklist.                                                    *)
(*                                                                         *)
(* A URL string is modelled as the sequence of its lexemes: the scheme     *)
(* prefix "https://", host labels (maximal runs of characters other than   *)
(* "." "/" ":"), the separators "." and "/", and a port suffix ":8080".    *)
(***************************************************************************)
EXTENDS Integers, Sequences, FiniteSets, TLC

\* ------------------------------------------------------------------ bounds
NumElems == 2        \* listing elements the page can ever hold
MaxEdits == 2        \* committed writes of the blockedShops key
MaxBatches == 2      \* mutation batches the observer is handed
MaxReach == 2        \* listing elements one batch reaches (with repeats)
MaxLabels == 4       \* host labels of a generated URL
MaxClock == 2        \* readings of Date.now() the storage calls can tell apart

\* ------------------------------------------------------------- JS values
null == "null"

\* the element of a one-element set: TheOne({F(v) : v \in {expr}}) is F(expr)
\* with expr evaluated once
TheOne(S) == CHOOSE x \in S : TRUE

\* ------------------------------------------------------------ URL lexemes
SchemeTok == "https://"
Dot == "."
Slash == "/"
PortTok == ":8080"
\* a label holding a code point that the URL host parser forbids (a space)
BadLabel == "f o"

HostLabels == {"foo", "FOO", "accounts", "www", "booth", "pm", "com", BadLabel}

\* String.prototype.toLowerCase on a label, as the URL host parser applies it
ToLower(tok) == IF tok = "FOO" THEN "foo" ELSE tok

RECURSIVE JoinDots(_)
JoinDots(ls) ==
  IF ls = <<>> THEN <<>>
  ELSE IF Len(ls) = 1 THEN <<ls[1]>>
  ELSE <<ls[1], Dot>> \o JoinDots(Tail(ls))

\* index of the first token of s that is in set S, or Len(s) + 1
RECURSIVE FirstIn(_, _, _)
FirstIn(s, S, i) ==
  IF i > Len(s) THEN i
  ELSE IF s[i] \in S THEN i
  ELSE FirstIn(s, S, i + 1)

Threw == [threw |-> TRUE, hostname |-> <<>>]

\* the authority of what follows the scheme: everything before the first "/"
Authority(rest) == SubSeq(rest, 1, FirstIn(rest, {Slash}, 1) - 1)

\* the authority without its port
StripPort(auth) ==
  IF auth # <<>> /\ auth[Len(auth)] = PortTok
  THEN SubSeq(auth, 1, Len(auth) - 1) ELSE auth

\* the host parser: an empty host or a forbidden code point is a failure,
\* otherwise the host in lower case
ParseHost(host) ==
  IF host = <<>> THEN Threw
  ELSE IF \E i \in 1..Len(host) : host[i] \in {BadLabel, PortTok, SchemeTok}
  THEN Threw
  ELSE [threw |-> FALSE, hostname |-> [i \in 1..Len(host) |-> ToLower(host[i])]]

\* new URL(url).hostname, or the TypeError the constructor throws
URLHostname(url) ==
  IF url = <<>> \/ Head(url) # SchemeTok THEN Threw
  ELSE TheOne({ParseHost(host) : host \in {StripPort(Authority(Tail(url)))}})

\* a faulty variant of MatchShopHost: the pattern without its ^ anchor
MatchShopHostUnanchored(hostname) ==
  IF /\ Len(hostname) >= 5
     /\ hostname[Len(hostname) - 4] # Dot
     /\ hostname[Len(hostname) - 3] = Dot /\ hostname[Len(hostname) - 2] = "booth"
     /\ hostname[Len(hostname) - 1] = Dot /\ hostname[Len(hostname)] = "pm"
  THEN hostname[Len(hostname) - 4] ELSE null

\* hostname.match(/^([^.]+)\.booth\.pm$/): the captured group, or null
MatchShopHost(hostname) ==
  IF /\ Len(hostname) = 5
     /\ hostname[1] # Dot
     /\ hostname[2] = Dot /\ hostname[3] = "booth"
     /\ hostname[4] = Dot /\ hostname[5] = "pm"
  THEN hostname[1] ELSE null

\* the href of an anchor without that attribute: getAttribute gives null
NullHref == <<null>>

\* match && match[1] !== 'accounts' && match[1] !== 'www' ? match[1] : null
UnlessReserved(m) == IF m # null /\ m # "accounts" /\ m # "www" THEN m ELSE null

\* the try block of extractShopId; a thrown TypeError is caught and gives null
ShopIdOfParsed(parsed) ==
  IF parsed.threw THEN null
  ELSE TheOne({UnlessReserved(m) : m \in {MatchShopHost(parsed.hostname)}})

extractShopId(url) ==
  IF url = NullHref \/ url = <<>> THEN null
  ELSE TheOne({ShopIdOfParsed(parsed) : parsed \in {URLHostname(url)}})

\* -------------------------------------------------------------- blocklist
\* the shops whose listings the page shows
ShopIds == {"foo", "bar", "constructor"}
\* the shop whose storefront the editing tab shows (its currentShopId)
TabShop == "foo"
\* a shop the user blocked in an earlier session
OldShop == "bar"

\* property names every plain object inherits from Object.prototype and that
\* a lower-cased host label can spell
ObjectPrototypeProps == {"constructor"}

EmptyObj == [k \in {} |-> 0]

\* the JS expression (key in obj) on a plain object: own or inherited
HasProperty(key, obj) == key \in DOMAIN obj \/ key \in ObjectPrototypeProps

\* obj[key] = value
SetProp(obj, key, value) ==
  [k \in DOMAIN obj \cup {key} |-> IF k = key THEN value ELSE obj[k]]

\* delete obj[key]
DeleteProp(obj, key) == [k \in DOMAIN obj \ {key} |-> obj[k]]

VARIABLES
  store,      \* browser.storage.local: [has, val] of the key blockedShops
  clock,      \* Date.now()
  edPc,       \* per editing context: "idle", or the write it is about to issue
  commits,    \* number of committed writes
  listening,  \* the listing page has registered its storage.onChanged listener
  notifQ,     \* change notifications on their way to the listing page
  pagePc,     \* the listing page's position in init
  initRead,   \* the blocklist processAllItemCards awaits
  snap,       \* blockedShopsPromise of observeNewItems: [resolved, val]
  elem,       \* the listing elements (.item-card) and their annotations
  batches,    \* observer callbacks suspended at await blockedShopsPromise
  nBatches,   \* batches handed to the observer so far
  bodyRuns,   \* per element: how often the classification body ran
  again,      \* per element: processItemCard was called for it when processed
  batchSnaps, \* the blocklist values the processed batches were classified with
  reconciled, \* a Reconciler pass has run on the listing page
  url,        \* the parts of the string an extractShopId call is given
  result,     \* the value that call returned
  apiReadFailed, \* per editing context: the read of its call in flight was rejected
  apiRet,     \* per editing context: what its last BoothShopStorage call returned
  tabPc,      \* the shop page's position in init
  tabRead,    \* the shop info injectUI awaits
  tabContainer, \* .booth-shop-blocker-container is in the shop page
  tabButtons, \* data-blocked of the .booth-shop-blocker-btn elements in it
  tabListening, \* the shop page has registered its storage.onChanged listener
  tabQ,       \* change notifications on their way to the shop page
  popQ,       \* change notifications on their way to the popup
  popReads,   \* displayShopList invocations suspended at their store read
  popCards,   \* data-shop-id of the .shop-card elements in #shopList, in order
  popError,   \* #shopList holds the error message
  popCount,   \* the number #blockedCount shows
  popEmpty,   \* #emptyState is displayed
  popTimers   \* pending setTimeout callbacks of handleUnblock

storeVars == <<store, clock, edPc, commits>>
pageVars == <<listening, notifQ, pagePc, initRead, snap, elem, batches, nBatches,
              bodyRuns, again, batchSnaps, reconciled>>
extractVars == <<url, result>>
apiVars == <<apiReadFailed, apiRet>>
tabVars == <<tabPc, tabRead, tabContainer, tabButtons, tabListening, tabQ>>
popupVars == <<popQ, popReads, popCards, popError, popCount, popEmpty, popTimers>>
otherVars == <<apiVars, tabVars, popupVars>>
vars == <<store, clock, edPc, commits, listening, notifQ, pagePc, initRead, snap,
          elem, batches, nBatches, bodyRuns, again, batchSnaps, reconciled, url, result,
          otherVars>>

Elems == 1..NumElems
Editors == {"tab", "popup"}
Idle == [op |-> "idle", shopId |-> null, blocked |-> EmptyObj]

\* ------------------------------------------------------ BoothShopStorage
\* browser.storage.local.get('blockedShops'): fulfilled with the stored value
\* or rejected
StorageGet(ok) ==
  IF ok THEN [rejected |-> FALSE, has |-> store.has, val |-> store.val]
  ELSE [rejected |-> TRUE, has |-> FALSE, val |-> EmptyObj]

\* getAllBlocked: result[STORAGE_KEY] || {}, and {} when the read is rejected
getAllBlocked(res) ==
  IF res.rejected THEN EmptyObj
  ELSE IF res.has THEN res.val ELSE EmptyObj

ShopRecord(name, reason) == [name |-> name, reason |-> reason, timestamp |-> clock]

\* what storage.onChanged hands its listeners for a write of blockedShops
ChangeNotification(value) ==
  [area |-> "local", hasKey |-> TRUE, newValue |-> [has |-> TRUE, val |-> value]]

\* browser.storage.local.set commits the value and notifies the listeners
\* registered at that moment
Commit(value) ==
  /\ commits < MaxEdits
  /\ store' = [has |-> TRUE, val |-> value]
  /\ commits' = commits + 1
  /\ notifQ' = IF listening THEN Append(notifQ, ChangeNotification(value))
               ELSE notifQ

\* blockShop up to its await of storage.local.set
blockShopRead(e, shopId, shopName, reason, ok) ==
  /\ edPc[e] = Idle
  /\ commits < MaxEdits
  /\ edPc' = [edPc EXCEPT ![e] =
       [op |-> "blockShop", shopId |-> shopId,
        blocked |-> SetProp(getAllBlocked(StorageGet(ok)), shopId,
                            ShopRecord(shopName, reason))]]
  /\ UNCHANGED <<store, clock, commits, notifQ>>

\* unblockShop up to its await of storage.local.set
unblockShopRead(e, shopId, ok) ==
  /\ edPc[e] = Idle
  /\ commits < MaxEdits
  /\ edPc' = [edPc EXCEPT ![e] =
       [op |-> "unblockShop", shopId |-> shopId,
        blocked |-> DeleteProp(getAllBlocked(StorageGet(ok)), shopId)]]
  /\ UNCHANGED <<store, clock, commits, notifQ>>

\* the popup's handleUnblock up to its await of storage.local.set; a rejected
\* read goes to its catch and nothing is written
handleUnblockRead(e, shopId) ==
  /\ edPc[e] = Idle
  /\ commits < MaxEdits
  /\ edPc' = [edPc EXCEPT ![e] =
       [op |-> "handleUnblock", shopId |-> shopId,
        blocked |-> DeleteProp(getAllBlocked(StorageGet(TRUE)), shopId)]]
  /\ UNCHANGED <<store, clock, commits, notifQ>>

\* updateReason up to its await of storage.local.set, or up to its
\* return false when blocked[shopId] is falsy; blocked[shopId] of an inherited
\* property name is a function, which takes the reason and is not stored
updateReasonRead(e, shopId, reason, ok) ==
  /\ edPc[e] = Idle
  /\ commits < MaxEdits
  /\ \E blocked \in {getAllBlocked(StorageGet(ok))} :
       edPc' = [edPc EXCEPT ![e] =
         IF HasProperty(shopId, blocked)
         THEN [op |-> "updateReason", shopId |-> shopId,
               blocked |-> IF shopId \in DOMAIN blocked
                           THEN [blocked EXCEPT ![shopId].reason = reason]
                           ELSE blocked]
         ELSE [op |-> "updateReasonAbsent", shopId |-> shopId, blocked |-> blocked]]
  /\ UNCHANGED <<store, clock, commits, notifQ>>

\* getShopInfo: blocked[shopId] || null
getShopInfo(shopId, res) ==
  IF shopId \in DOMAIN getAllBlocked(res)
  THEN [isNull |-> FALSE, reason |-> getAllBlocked(res)[shopId].reason]
  ELSE [isNull |-> shopId \notin ObjectPrototypeProps, reason |-> ""]

\* the awaited storage.local.set is fulfilled
WriteDone(e) ==
  /\ edPc[e] # Idle
  /\ Commit(edPc[e].blocked)
  /\ edPc' = [edPc EXCEPT ![e] = Idle]
  /\ UNCHANGED clock

\* the awaited storage.local.set is rejected: nothing is stored
WriteFailed(e) ==
  /\ edPc[e] # Idle
  /\ edPc' = [edPc EXCEPT ![e] = Idle]
  /\ UNCHANGED <<store, clock, commits, notifQ>>

\* ---------------------------------------------------------- listing page
ShopUrl(label) == <<SchemeTok, label, Dot, "booth", Dot, "pm", Slash>>

\* what a listing element can carry as its shop link
Links ==
  {[anchor |-> FALSE, href |-> NullHref]} \cup
  {[anchor |-> TRUE, href |-> ShopUrl(l)] : l \in ShopIds \cup {"accounts"}}

\* the page layouts explored: which links the e-th listing element may carry
LinksAt(e) ==
  IF e % 2 = 1
  THEN {l \in Links : l.href \in {NullHref, ShopUrl("foo"), ShopUrl("constructor")}}
  ELSE {l \in Links : l.href \in {ShopUrl("foo"), ShopUrl("bar"), ShopUrl("accounts")}}

NewCard(link) ==
  [inDoc |-> FALSE, anchor |-> link.anchor, href |-> link.href,
   processed |-> FALSE, shopId |-> null, display |-> "", blocked |-> FALSE]

getShopIdFromItemCard(itemCard) ==
  IF ~itemCard.anchor THEN null ELSE extractShopId(itemCard.href)

\* a faulty variant of hideItemCard: the marker is not set
hideItemCardNoMarker(itemCard) == [itemCard EXCEPT !.display = "none"]

hideItemCard(itemCard) == [itemCard EXCEPT !.display = "none", !.blocked = TRUE]

\* a faulty variant of showItemCard: the shop id annotation goes as well
showItemCardClearsShopId(itemCard) ==
  [itemCard EXCEPT !.display = "", !.blocked = FALSE, !.shopId = null]

showItemCard(itemCard) == [itemCard EXCEPT !.display = "", !.blocked = FALSE]

\* processItemCard from its setAttribute('data-shop-blocker-processed') on,
\* with the shop id getShopIdFromItemCard gave
ClassifyCard(itemCard, shopId, blockedShops) ==
  IF shopId = null THEN [itemCard EXCEPT !.processed = TRUE]
  ELSE IF HasProperty(shopId, blockedShops)
  THEN hideItemCard([itemCard EXCEPT !.processed = TRUE, !.shopId = shopId])
  ELSE [itemCard EXCEPT !.processed = TRUE, !.shopId = shopId]

\* the body of processItemCard, which its guard lets through
ClassifyBody(itemCard, blockedShops) ==
  TheOne({[card |-> ClassifyCard(itemCard, shopId, blockedShops), ran |-> TRUE] :
            shopId \in {getShopIdFromItemCard(itemCard)}})

\* a faulty variant of processItemCard: no processed-marker guard
processItemCardNoGuard(itemCard, blockedShops) == ClassifyBody(itemCard, blockedShops)

\* a faulty variant of processItemCard: a card without a shop id is hidden
processItemCardFailClosed(itemCard, blockedShops) ==
  IF itemCard.processed THEN [card |-> itemCard, ran |-> FALSE]
  ELSE IF getShopIdFromItemCard(itemCard) = null
  THEN [card |-> hideItemCard([itemCard EXCEPT !.processed = TRUE]), ran |-> TRUE]
  ELSE ClassifyBody(itemCard, blockedShops)

\* processItemCard: the card afterwards, and whether the body ran
processItemCard(itemCard, blockedShops) ==
  IF itemCard.processed THEN [card |-> itemCard, ran |-> FALSE]
  ELSE ClassifyBody(itemCard, blockedShops)

Min(a, b) == IF a < b THEN a ELSE b

\* one processItemCard call, on card e, recorded: r is what the call gave
CardStep(st, e, call) ==
  TheOne({[elem |-> [st.elem EXCEPT ![e] = r.card],
           bodyRuns |-> [st.bodyRuns EXCEPT ![e] = Min(2, @ + IF r.ran THEN 1 ELSE 0)],
           again |-> [st.again EXCEPT ![e] = @ \/ st.elem[e].processed]] :
            r \in {call}})

\* a faulty variant of ProcessCards: the loop stops after the first card
ProcessCardsFirstOnly(st, cards, blockedShops) ==
  IF cards = <<>> THEN st
  ELSE CardStep(st, Head(cards), processItemCard(st.elem[Head(cards)], blockedShops))

\* the forEach loops: processItemCard on each card of the list, in order
RECURSIVE ProcessCards(_, _, _)
ProcessCards(st, cards, blockedShops) ==
  IF cards = <<>> THEN st
  ELSE TheOne({ProcessCards(next, Tail(cards), blockedShops) :
                 next \in {CardStep(st, Head(cards),
                                    processItemCard(st.elem[Head(cards)], blockedShops))}})

\* document.querySelectorAll('.item-card'), in document order
RECURSIVE DocCards(_)
DocCards(e) ==
  IF e > NumElems THEN <<>>
  ELSE (IF elem[e].inDoc THEN <<e>> ELSE <<>>) \o DocCards(e + 1)

\* the storage.onChanged listener of the listing page
onStorageChanged(els, n) ==
  IF n.area # "local" \/ ~n.hasKey THEN els
  ELSE
    LET newBlockedShops == IF n.newValue.has THEN n.newValue.val ELSE EmptyObj
    IN [e \in Elems |->
         IF els[e].inDoc /\ els[e].shopId # null
         THEN IF HasProperty(els[e].shopId, newBlockedShops)
              THEN hideItemCard(els[e]) ELSE showItemCard(els[e])
         ELSE els[e]]

\* a continuation of the observer callback is queued as a microtask: it runs
\* before the page context takes its next task
MicrotaskPending == snap.resolved /\ batches # <<>>

ReachLists == UNION {[1..n -> Elems] : n \in 1..MaxReach}

\* the page inserts nodes; cards lists the listing elements the added nodes
\* are or contain, in the order the callback will visit them
AddNodes(cards) ==
  /\ ~MicrotaskPending
  /\ elem' = [e \in Elems |->
       IF \E i \in 1..Len(cards) : cards[i] = e
       THEN [elem[e] EXCEPT !.inDoc = TRUE] ELSE elem[e]]
  /\ IF pagePc = "running"
     THEN /\ nBatches < MaxBatches
          /\ batches' = Append(batches, cards)
          /\ nBatches' = nBatches + 1
     ELSE /\ elem' # elem
          /\ UNCHANGED <<batches, nBatches>>
  /\ UNCHANGED <<listening, notifQ, pagePc, initRead, snap, bodyRuns, again,
                 batchSnaps, reconciled>>

\* init on a listing page, up to the await inside processAllItemCards
InitStart(ok) ==
  /\ pagePc = "loading"
  /\ pagePc' = "initAwait"
  /\ initRead' = getAllBlocked(StorageGet(ok))
  /\ UNCHANGED <<listening, notifQ, snap, elem, batches, nBatches, bodyRuns,
                 again, batchSnaps, reconciled>>

\* processAllItemCards resumes, then init calls observeNewItems and
\* observeStorageChanges
InitContinue ==
  /\ pagePc = "initAwait"
  /\ \E st \in {ProcessCards([elem |-> elem, bodyRuns |-> bodyRuns, again |-> again],
                               DocCards(1), initRead)} :
       /\ elem' = st.elem
       /\ bodyRuns' = st.bodyRuns
       /\ again' = st.again
  /\ pagePc' = "running"
  /\ initRead' = EmptyObj
  /\ snap' = [resolved |-> FALSE, val |-> EmptyObj]
  /\ listening' = TRUE
  /\ UNCHANGED <<notifQ, batches, nBatches, batchSnaps, reconciled>>

\* blockedShopsPromise settles
SnapshotResolve(ok) ==
  /\ pagePc = "running"
  /\ ~snap.resolved
  /\ snap' = [resolved |-> TRUE, val |-> getAllBlocked(StorageGet(ok))]
  /\ UNCHANGED <<listening, notifQ, pagePc, initRead, elem, batches, nBatches,
                 bodyRuns, again, batchSnaps, reconciled>>

\* a faulty variant of ProcessBatch: the blocklist is fetched for each batch
ProcessBatchRefetch ==
  /\ MicrotaskPending
  /\ \E fresh \in {getAllBlocked(StorageGet(TRUE))} :
       \E st \in {ProcessCards([elem |-> elem, bodyRuns |-> bodyRuns, again |-> again],
                                Head(batches), fresh)} :
         /\ elem' = st.elem
         /\ bodyRuns' = st.bodyRuns
         /\ again' = st.again
         /\ batchSnaps' = batchSnaps \cup {fresh}
  /\ batches' = Tail(batches)
  /\ UNCHANGED <<listening, notifQ, pagePc, initRead, snap, nBatches, reconciled>>

\* a faulty variant of ProcessBatch: the newest suspended callback resumes
ProcessBatchNewestFirst ==
  /\ MicrotaskPending
  /\ \E st \in {ProcessCards([elem |-> elem, bodyRuns |-> bodyRuns, again |-> again],
                               batches[Len(batches)], snap.val)} :
       /\ elem' = st.elem
       /\ bodyRuns' = st.bodyRuns
       /\ again' = st.again
  /\ batches' = SubSeq(batches, 1, Len(batches) - 1)
  /\ batchSnaps' = batchSnaps \cup {snap.val}
  /\ UNCHANGED <<listening, notifQ, pagePc, initRead, snap, nBatches, reconciled>>

\* the oldest suspended observer callback resumes and runs to its end
ProcessBatch ==
  /\ MicrotaskPending
  /\ \E st \in {ProcessCards([elem |-> elem, bodyRuns |-> bodyRuns, again |-> again],
                               Head(batches), snap.val)} :
       /\ elem' = st.elem
       /\ bodyRuns' = st.bodyRuns
       /\ again' = st.again
  /\ batches' = Tail(batches)
  /\ batchSnaps' = batchSnaps \cup {snap.val}
  /\ UNCHANGED <<listening, notifQ, pagePc, initRead, snap, nBatches, reconciled>>

\* the listing page's storage.onChanged listener takes the oldest notification
HandleNotification ==
  /\ ~MicrotaskPending
  /\ notifQ # <<>>
  /\ LET n == Head(notifQ)
     IN /\ elem' = onStorageChanged(elem, n)
        /\ reconciled' = (reconciled \/ (n.area = "local" /\ n.hasKey))
  /\ notifQ' = Tail(notifQ)
  /\ UNCHANGED <<listening, pagePc, initRead, snap, batches, nBatches, bodyRuns,
                 again, batchSnaps>>

\* ----------------------------------------------------------- specification
InitStore ==
  /\ clock = 0
  /\ store \in {[has |-> FALSE, val |-> EmptyObj],
                [has |-> TRUE, val |-> SetProp(EmptyObj, OldShop, ShopRecord(OldShop, ""))]}
  /\ edPc = [e \in Editors |-> Idle]
  /\ commits = 0

InitPage ==
  /\ listening = FALSE
  /\ notifQ = <<>>
  /\ pagePc = "loading"
  /\ initRead = EmptyObj
  /\ snap = [resolved |-> FALSE, val |-> EmptyObj]
  /\ batches = <<>>
  /\ nBatches = 0
  /\ bodyRuns = [e \in Elems |-> 0]
  /\ again = [e \in Elems |-> FALSE]
  /\ batchSnaps = {}
  /\ reconciled = FALSE

NotCalled == "not called"

\* no BoothShopStorage call has returned yet
NoRet == [value |-> "none", failed |-> FALSE]

InitApi ==
  /\ apiReadFailed = [e \in Editors |-> FALSE]
  /\ apiRet = [e \in Editors |-> NoRet]

InitTab ==
  /\ tabPc = "loading"
  /\ tabRead = [isNull |-> TRUE, reason |-> ""]
  /\ tabContainer = FALSE
  /\ tabButtons = <<>>
  /\ tabListening = FALSE
  /\ tabQ = <<>>

\* a displayShopList invocation whose storage.local.get is not answered yet
Unserved == [served |-> FALSE, res |-> [rejected |-> FALSE, has |-> FALSE, val |-> EmptyObj]]

\* popup.js has run to the await of its first displayShopList: the listener
\* is registered and one invocation is in flight
InitPopup ==
  /\ popQ = <<>>
  /\ popReads = <<Unserved>>
  /\ popCards = <<>>
  /\ popError = FALSE
  /\ popCount = 0
  /\ popEmpty = FALSE
  /\ popTimers = {}

InitOther == InitApi /\ InitTab /\ InitPopup

\* the strings extractShopId is tried on: an optional scheme prefix, up to
\* MaxLabels host labels joined by dots, an optional port, an optional path
UrlParts ==
  [scheme : {<<>>, <<SchemeTok>>},
   labels : UNION {[1..n -> HostLabels] : n \in 0..MaxLabels},
   port : {<<>>, <<PortTok>>},
   path : {<<>>, <<Slash>>, <<Slash, "foo", Dot, "booth", Dot, "pm">>}]

NoUrl == [scheme |-> <<>>, labels |-> <<>>, port |-> <<>>, path |-> <<>>]

UrlString(u) == u.scheme \o JoinDots(u.labels) \o u.port \o u.path

Init ==
  /\ InitStore
  /\ InitPage
  /\ elem \in {f \in [Elems -> {NewCard(l) : l \in Links}] :
                 \A e \in Elems : [anchor |-> f[e].anchor, href |-> f[e].href]
                                   \in LinksAt(e)}
  /\ url = NoUrl
  /\ result = NotCalled
  /\ InitOther

\* the shop page's block and unblock buttons
TabEditStep ==
  \/ blockShopRead("tab", TabShop, TabShop, "", TRUE)
  \/ unblockShopRead("tab", TabShop, TRUE)
  \/ WriteDone("tab")
  \/ WriteFailed("tab")

\* the popup's unblock buttons
PopupEditStep ==
  \/ \E s \in DOMAIN store.val : handleUnblockRead("popup", s)
  \/ WriteDone("popup")
  \/ WriteFailed("popup")

EditStep == TabEditStep \/ PopupEditStep

PageStep ==
  \/ \E cards \in ReachLists : AddNodes(cards)
  \/ \E ok \in BOOLEAN : InitStart(ok)
  \/ InitContinue
  \/ \E ok \in BOOLEAN : SnapshotResolve(ok)
  \/ ProcessBatch
  \/ HandleNotification

Next ==
  \/ EditStep /\ UNCHANGED <<listening, pagePc, initRead, snap, elem, batches,
                             nBatches, bodyRuns, again, batchSnaps, reconciled>>
                /\ UNCHANGED <<extractVars, otherVars>>
  \/ PageStep /\ UNCHANGED storeVars /\ UNCHANGED <<extractVars, otherVars>>

Spec == Init /\ [][Next]_vars

\* the steps the page context takes by itself: DOMContentLoaded fires, an
\* awaited storage read settles, a queued continuation runs
PageProgress ==
  /\ \/ \E ok \in BOOLEAN : InitStart(ok)
     \/ InitContinue
     \/ \E ok \in BOOLEAN : SnapshotResolve(ok)
     \/ ProcessBatch
  /\ UNCHANGED storeVars /\ UNCHANGED <<extractVars, otherVars>>

\* the listings progress is checked on: a blocklist with one shop and a card
\* of that shop among the cards
InitFair ==
  /\ Init
  /\ store.has
  /\ \E e \in Elems : elem[e].href = ShopUrl(OldShop)

\* the listing page with the shop page as the only editor
NextFair ==
  \/ TabEditStep /\ UNCHANGED <<listening, pagePc, initRead, snap, elem, batches,
                                 nBatches, bodyRuns, again, batchSnaps, reconciled>>
                 /\ UNCHANGED <<extractVars, otherVars>>
  \/ PageStep /\ UNCHANGED storeVars /\ UNCHANGED <<extractVars, otherVars>>

FairSpec == InitFair /\ [][NextFair]_vars /\ WF_vars(PageProgress)

\* ------------------------------------------- extractShopId on its own
InitExtract ==
  /\ InitStore
  /\ InitPage
  /\ store.has = FALSE
  /\ elem = [e \in Elems |-> NewCard([anchor |-> FALSE, href |-> NullHref])]
  /\ url \in UrlParts
  /\ result = NotCalled
  /\ InitOther

ExtractCall ==
  /\ result = NotCalled
  /\ result' = extractShopId(UrlString(url))
  /\ UNCHANGED <<url, storeVars, pageVars, notifQ, otherVars>>

NextExtract == ExtractCall

SpecExtract == InitExtract /\ [][NextExtract]_vars

\* ------------------------------------------- BoothShopStorage under callers
\* the shops and reasons the calls are made with
StoreShops == {TabShop, OldShop}
Reasons == {"", "spam"}

\* the operations that return a boolean to their caller
BooleanOps == {"blockShop", "unblockShop", "updateReason", "updateReasonAbsent"}

CallStarts(e, ok) ==
  /\ apiReadFailed' = [apiReadFailed EXCEPT ![e] = ~ok]
  /\ apiRet' = [apiRet EXCEPT ![e] = NoRet]

CallBlockShop(e, shopId, reason, ok) ==
  blockShopRead(e, shopId, shopId, reason, ok) /\ CallStarts(e, ok)

CallUnblockShop(e, shopId, ok) == unblockShopRead(e, shopId, ok) /\ CallStarts(e, ok)

CallUpdateReason(e, shopId, reason, ok) ==
  updateReasonRead(e, shopId, reason, ok) /\ CallStarts(e, ok)

\* the popup's own unblock, which does not go through BoothShopStorage
CallHandleUnblock(shopId) == handleUnblockRead("popup", shopId) /\ CallStarts("popup", TRUE)

\* storage.local.set is fulfilled and the operation returns true
SetFulfilled(e) ==
  /\ edPc[e].op # "updateReasonAbsent"
  /\ WriteDone(e)
  /\ apiRet' = [apiRet EXCEPT ![e] = [value |-> "true", failed |-> apiReadFailed[e]]]
  /\ UNCHANGED apiReadFailed

\* storage.local.set is rejected: the catch block returns false
SetRejected(e) ==
  /\ edPc[e].op # "updateReasonAbsent"
  /\ WriteFailed(e)
  /\ apiRet' = [apiRet EXCEPT ![e] = [value |-> "false", failed |-> TRUE]]
  /\ UNCHANGED apiReadFailed

\* updateReason found no record: return false without a write
ReturnFalse(e) ==
  /\ edPc[e].op = "updateReasonAbsent"
  /\ edPc' = [edPc EXCEPT ![e] = Idle]
  /\ apiRet' = [apiRet EXCEPT ![e] = [value |-> "false", failed |-> apiReadFailed[e]]]
  /\ UNCHANGED <<store, clock, commits, notifQ, apiReadFailed>>

\* time passes between two readings of Date.now()
Tick ==
  /\ clock < MaxClock
  /\ clock' = clock + 1
  /\ UNCHANGED <<store, edPc, commits, notifQ, apiVars>>

StoreStep ==
  \/ \E e \in Editors, s \in StoreShops, r \in Reasons, ok \in BOOLEAN :
       CallBlockShop(e, s, r, ok)
  \/ \E e \in Editors, s \in StoreShops, ok \in BOOLEAN : CallUnblockShop(e, s, ok)
  \/ \E e \in Editors, s \in ShopIds, r \in Reasons, ok \in BOOLEAN :
       CallUpdateReason(e, s, r, ok)
  \/ \E s \in DOMAIN store.val : CallHandleUnblock(s)
  \/ \E e \in Editors : SetFulfilled(e)
  \/ \E e \in Editors : SetRejected(e)
  \/ \E e \in Editors : ReturnFalse(e)
  \/ Tick

\* no listing page is open: only the store and its callers move
NextStore ==
  StoreStep /\ UNCHANGED <<listening, pagePc, initRead, snap, elem, batches, nBatches,
                           bodyRuns, again, batchSnaps, reconciled, extractVars,
                           tabVars, popupVars>>

InitStoreOnly ==
  /\ InitStore
  /\ InitPage
  /\ elem = [e \in Elems |-> NewCard([anchor |-> FALSE, href |-> NullHref])]
  /\ url = NoUrl
  /\ result = NotCalled
  /\ InitOther

SpecStore == InitStoreOnly /\ [][NextStore]_vars

\* ------------------------------------------------------------ shop page UI
\* updateUI: without the container nothing; else the first button goes and a
\* new one is appended
updateUI(buttons, container, isBlocked) ==
  IF ~container THEN buttons
  ELSE Append(IF buttons = <<>> THEN buttons ELSE Tail(buttons), isBlocked)

\* storage.onChanged reaches the shop page if its listener is registered
NotifyTab(value) ==
  tabQ' = IF tabListening THEN Append(tabQ, ChangeNotification(value)) ELSE tabQ

\* init, injectUI up to its await of getShopInfo; without an insertion point
\* injectUI returns and init registers the listener
InjectStart(hasTarget, ok) ==
  /\ tabPc = "loading"
  /\ IF hasTarget
     THEN /\ tabPc' = "injectAwait"
          /\ tabRead' = getShopInfo(TabShop, StorageGet(ok))
          /\ UNCHANGED tabListening
     ELSE /\ tabPc' = "ready"
          /\ tabListening' = TRUE
          /\ UNCHANGED tabRead
  /\ UNCHANGED <<tabContainer, tabButtons, tabQ>>

\* injectUI resumes: the button is created from the awaited shop info, the
\* container is inserted, and init calls observeStorageChanges
InjectContinue ==
  /\ tabPc = "injectAwait"
  /\ tabPc' = "ready"
  /\ tabContainer' = TRUE
  /\ tabButtons' = <<~tabRead.isNull>>
  /\ tabListening' = TRUE
  /\ UNCHANGED <<tabRead, tabQ>>

\* a click on the toggle button: handleUnblock if the button was created as
\* blocked, handleBlock otherwise, up to the await inside the storage call
TabClick(reason, ok) ==
  /\ tabContainer /\ tabButtons # <<>>
  /\ IF tabButtons[1]
     THEN unblockShopRead("tab", TabShop, ok)
     ELSE blockShopRead("tab", TabShop, TabShop, reason, ok)
  /\ UNCHANGED tabVars

\* the storage call of the click returns true: updateUI(true) or updateUI(false)
TabWriteDone ==
  /\ WriteDone("tab")
  /\ NotifyTab(edPc["tab"].blocked)
  /\ tabButtons' = updateUI(tabButtons, tabContainer, edPc["tab"].op = "blockShop")
  /\ UNCHANGED <<tabPc, tabRead, tabContainer, tabListening>>

\* the storage call of the click returns false: an alert, no UI change
TabWriteFailed == WriteFailed("tab") /\ UNCHANGED tabVars

\* the popup unblocks a shop
OtherUnblock(shopId) == handleUnblockRead("popup", shopId) /\ UNCHANGED tabVars

OtherWriteDone ==
  /\ WriteDone("popup")
  /\ NotifyTab(edPc["popup"].blocked)
  /\ UNCHANGED <<tabPc, tabRead, tabContainer, tabButtons, tabListening>>

\* the shop page's storage.onChanged listener takes the oldest notification
TabHandleNotification ==
  /\ tabQ # <<>>
  /\ tabQ' = Tail(tabQ)
  /\ LET n == Head(tabQ)
         newBlockedShops == IF n.newValue.has THEN n.newValue.val ELSE EmptyObj
     IN tabButtons' =
          IF n.area # "local" \/ ~n.hasKey THEN tabButtons
          ELSE updateUI(tabButtons, tabContainer, HasProperty(TabShop, newBlockedShops))
  /\ UNCHANGED <<tabPc, tabRead, tabContainer, tabListening>>

TabStep ==
  \/ \E hasTarget \in BOOLEAN, ok \in BOOLEAN : InjectStart(hasTarget, ok) /\ UNCHANGED storeVars
  \/ InjectContinue /\ UNCHANGED storeVars
  \/ \E r \in Reasons, ok \in BOOLEAN : TabClick(r, ok)
  \/ TabWriteDone
  \/ TabWriteFailed
  \/ \E s \in DOMAIN store.val : OtherUnblock(s)
  \/ OtherWriteDone
  \/ TabHandleNotification /\ UNCHANGED storeVars

\* a shop page and the popup; no listing page is open
NextTab ==
  TabStep /\ UNCHANGED <<listening, notifQ, pagePc, initRead, snap, elem, batches,
                         nBatches, bodyRuns, again, batchSnaps, reconciled,
                         extractVars, apiVars, popupVars>>

\* the shop of the page is blocked or not when the page loads
InitTabStore ==
  /\ clock = 0
  /\ store \in {[has |-> FALSE, val |-> EmptyObj],
                [has |-> TRUE, val |-> SetProp(EmptyObj, TabShop, ShopRecord(TabShop, ""))],
                [has |-> TRUE,
                 val |-> SetProp(SetProp(EmptyObj, TabShop, ShopRecord(TabShop, "spam")),
                                 OldShop, ShopRecord(OldShop, ""))]}
  /\ edPc = [e \in Editors |-> Idle]
  /\ commits = 0

\* the store with the shop page's shop in it or not, and no listing page
InitUi ==
  /\ InitTabStore
  /\ InitPage
  /\ InitOther
  /\ elem = [e \in Elems |-> NewCard([anchor |-> FALSE, href |-> NullHref])]
  /\ url = NoUrl
  /\ result = NotCalled

SpecTab == InitUi /\ [][NextTab]_vars

\* ------------------------------------------------------------------ popup
\* Object.entries(blockedShops) sorted by timestamp, newest first: the keys
RECURSIVE SortedEntries(_)
SortedEntries(blockedShops) ==
  IF DOMAIN blockedShops = {} THEN <<>>
  ELSE LET k == CHOOSE x \in DOMAIN blockedShops :
                  \A y \in DOMAIN blockedShops :
                    blockedShops[y].timestamp <= blockedShops[x].timestamp
       IN <<k>> \o SortedEntries(DeleteProp(blockedShops, k))

\* a faulty variant of RenderList: the list is not cleared first
RenderListNoClear(cards, blockedShops) == cards \o SortedEntries(blockedShops)

\* displayShopList from shopListElement.innerHTML = '' to the last appendChild
RenderList(cards, blockedShops) == SortedEntries(blockedShops)

\* the cards without the first one of the shop
RECURSIVE RemoveCard(_, _)
RemoveCard(cards, shopId) ==
  IF cards = <<>> THEN <<>>
  ELSE IF Head(cards) = shopId THEN Tail(cards)
  ELSE <<Head(cards)>> \o RemoveCard(Tail(cards), shopId)

HasCard(cards, shopId) == \E i \in 1..Len(cards) : cards[i] = shopId

\* the popup's updateUI: the count of .shop-card elements and the panels
popupUpdateUI(cards) ==
  /\ popCount' = Len(cards)
  /\ popEmpty' = (Len(cards) = 0)

\* storage.onChanged reaches the popup, whose listener is registered first
NotifyPopup(value) == popQ' = Append(popQ, ChangeNotification(value))

\* the popup's storage.onChanged listener: displayShopList() up to its await
PopupHandleNotification ==
  /\ popQ # <<>>
  /\ popQ' = Tail(popQ)
  /\ popReads' = IF Head(popQ).area = "local" /\ Head(popQ).hasKey
                 THEN Append(popReads, Unserved) ELSE popReads
  /\ UNCHANGED <<popCards, popError, popCount, popEmpty, popTimers>>

\* the oldest unanswered storage.local.get of the popup is answered
DisplayServe(ok) ==
  /\ \E i \in 1..Len(popReads) :
       /\ ~popReads[i].served
       /\ \A j \in 1..(i - 1) : popReads[j].served
       /\ popReads' = [popReads EXCEPT ![i] = [served |-> TRUE, res |-> StorageGet(ok)]]
  /\ UNCHANGED <<popQ, popCards, popError, popCount, popEmpty, popTimers>>

\* the oldest displayShopList resumes: it renders the list, or its catch
\* block puts the error message in place of the list
DisplayResume ==
  /\ popReads # <<>> /\ Head(popReads).served
  /\ popReads' = Tail(popReads)
  /\ popTimers' = {[t EXCEPT !.attached = FALSE] : t \in popTimers}
  /\ IF Head(popReads).res.rejected
     THEN /\ popCards' = <<>>
          /\ popError' = TRUE
          /\ UNCHANGED <<popCount, popEmpty>>
     ELSE /\ popCards' = RenderList(popCards,
                                    IF Head(popReads).res.has
                                    THEN Head(popReads).res.val ELSE EmptyObj)
          /\ popError' = FALSE
          /\ popupUpdateUI(popCards')
  /\ UNCHANGED popQ

\* a click on a card's unblock button, confirmed: handleUnblock up to its
\* await of storage.local.set
PopupClick(shopId) ==
  /\ HasCard(popCards, shopId)
  /\ handleUnblockRead("popup", shopId)
  /\ UNCHANGED popupVars

\* the popup's storage.local.set is fulfilled: the card of the shop, if the
\* list has one, is faded and a timer is set to remove it
PopupWriteDone ==
  /\ WriteDone("popup")
  /\ NotifyPopup(edPc["popup"].blocked)
  /\ popTimers' = IF HasCard(popCards, edPc["popup"].shopId)
                  THEN popTimers \cup {[shopId |-> edPc["popup"].shopId, attached |-> TRUE]}
                  ELSE popTimers
  /\ UNCHANGED <<popReads, popCards, popError, popCount, popEmpty>>

PopupWriteFailed == WriteFailed("popup") /\ UNCHANGED popupVars

\* the setTimeout callback: card.remove() and updateUI()
TimerFires(t) ==
  /\ t \in popTimers
  /\ popTimers' = popTimers \ {t}
  /\ popCards' = IF t.attached THEN RemoveCard(popCards, t.shopId) ELSE popCards
  /\ popupUpdateUI(popCards')
  /\ UNCHANGED <<popQ, popReads, popError>>

\* a shop page blocks or unblocks its shop meanwhile
ShopPageEdit ==
  /\ \/ blockShopRead("tab", TabShop, TabShop, "", TRUE)
     \/ unblockShopRead("tab", TabShop, TRUE)
     \/ WriteFailed("tab")
  /\ UNCHANGED popupVars

ShopPageWriteDone ==
  /\ WriteDone("tab")
  /\ NotifyPopup(edPc["tab"].blocked)
  /\ UNCHANGED <<popReads, popCards, popError, popCount, popEmpty, popTimers>>

PopupStep ==
  \/ PopupHandleNotification /\ UNCHANGED storeVars
  \/ \E ok \in BOOLEAN : DisplayServe(ok) /\ UNCHANGED storeVars
  \/ DisplayResume /\ UNCHANGED storeVars
  \/ \E s \in ShopIds : PopupClick(s)
  \/ PopupWriteDone
  \/ PopupWriteFailed
  \/ \E t \in popTimers : TimerFires(t) /\ UNCHANGED storeVars
  \/ ShopPageEdit
  \/ ShopPageWriteDone

\* the popup and a shop page; no listing page is open
NextPopup ==
  PopupStep /\ UNCHANGED <<listening, notifQ, pagePc, initRead, snap, elem, batches,
                           nBatches, bodyRuns, again, batchSnaps, reconciled,
                           extractVars, apiVars, tabVars>>

SpecPopup == InitUi /\ [][NextPopup]_vars

\* ------------------------------------------------------------ properties
Hidden(card) == card.display = "none"

\* the listing element carries a resolved shopId annotation
Classified(e) == elem[e].inDoc /\ elem[e].shopId # null

\* the element's shop link is https://<s>.booth.pm/
LinksTo(e, s) == elem[e].anchor /\ elem[e].href = ShopUrl(s)

\* the element has no shop link, or one with a reserved identifier
Unresolvable(e) == ~elem[e].anchor \/ elem[e].href = ShopUrl("accounts")

Keys(blocklist) == DOMAIN blocklist

\* the listener is registered and has handled the notification of every
\* write committed so far, the latest included
LatestEditReconciled == listening /\ reconciled /\ notifQ = <<>>

\* a step in which the listing page's listener handles a blockedShops change
ReconcilerStep ==
  /\ notifQ # <<>>
  /\ notifQ' = Tail(notifQ)
  /\ Head(notifQ).area = "local" /\ Head(notifQ).hasKey

\* the blocklist the classification of this step reads
SnapshotInUse == IF pagePc = "initAwait" THEN initRead ELSE snap.val

\* C1: once the Reconciler pass for the latest edit has completed, every
\* element with a resolved shopId annotation is hidden exactly when its
\* shopId is a key of the persisted Blocklist.
C1_EventualConsistency ==
  LatestEditReconciled =>
    \A e \in Elems :
      Classified(e) => (Hidden(elem[e]) <=> elem[e].shopId \in Keys(store.val))

\* C2: a step that classifies a not yet processed element whose link resolves
\* to s leaves it processed, annotated with s, and hidden with the blocked
\* marker exactly when s is a key of the Snapshot in use.
C2_ClassifierDecision ==
  [][\A e \in Elems, s \in ShopIds :
       (LinksTo(e, s) /\ ~elem[e].processed /\ elem'[e].processed) =>
         /\ elem'[e].shopId = s
         /\ Hidden(elem'[e]) <=> s \in Keys(SnapshotInUse)
         /\ elem'[e].blocked <=> s \in Keys(SnapshotInUse)]_vars

\* blocklists that have reserved identifiers among their keys
ReservedBlocklists ==
  {[k \in K |-> [name |-> k, reason |-> "", timestamp |-> 0]] :
     K \in {{"accounts"}, {"www"}, {"accounts", "www"} \cup ShopIds}}

\* C3: a listing element whose shop identifier cannot be resolved is never
\* hidden and never gets a shopId or the blocked marker, and neither a
\* classification nor a Reconciler pass with a blocklist that has the reserved
\* identifiers as keys would hide it.
C3_UnresolvedNeverHidden ==
  \A e \in Elems :
    Unresolvable(e) =>
      /\ ~Hidden(elem[e]) /\ ~elem[e].blocked /\ elem[e].shopId = null
      /\ \A B \in ReservedBlocklists :
           /\ onStorageChanged(elem, ChangeNotification(B))[e] = elem[e]
           /\ LET c == processItemCard([elem[e] EXCEPT !.processed = FALSE], B).card
              IN ~Hidden(c) /\ ~c.blocked /\ c.shopId = null

\* an unresolvable element was classified and has since lived through a
\* Reconciler pass while the Blocklist was not empty
C3_Witness ==
  \E e \in Elems :
    /\ Unresolvable(e) /\ elem[e].anchor /\ elem[e].processed
    /\ reconciled /\ notifQ = <<>> /\ Keys(store.val) # {}

AllBlocklists ==
  {[k \in K |-> [name |-> k, reason |-> "", timestamp |-> 0]] : K \in SUBSET ShopIds}

\* C4: the classification body runs at most once per element, and a
\* processItemCard call on a processed element, with any blocklist, changes
\* nothing of it.
C4_ClassifiedOnce ==
  \A e \in Elems :
    /\ bodyRuns[e] <= 1
    /\ elem[e].processed =>
         \A B \in AllBlocklists :
           /\ processItemCard(elem[e], B).card = elem[e]
           /\ ~processItemCard(elem[e], B).ran

\* an element was reached again after its classification, by a batch whose
\* Snapshot would now decide differently
C4_Witness ==
  \E e \in Elems :
    /\ again[e] /\ bodyRuns[e] = 1 /\ Classified(e)
    /\ snap.resolved
    /\ Hidden(elem[e]) # HasProperty(elem[e].shopId, snap.val)

\* C5: every listing element in the document, present at init or added
\* later, is eventually marked processed.
C5_EventuallyClassified ==
  \A e \in Elems : elem[e].inDoc ~> elem[e].processed

\* an element added before init and one added by a later batch are both
\* processed
C5_Witness ==
  /\ \A e \in Elems : elem[e].inDoc /\ elem[e].processed
  /\ nBatches >= 1 /\ batches = <<>>
  /\ \E e \in Elems : bodyRuns[e] = 1 /\ ~again[e]

\* C6: the Reconciler pass for a notification hides the visible elements
\* whose shopId the new Blocklist contains and shows the hidden elements
\* whose shopId it lacks, and no classification runs in that step.
C6_BoundedStaleness ==
  [][ReconcilerStep =>
       LET B == Head(notifQ).newValue.val
       IN \A e \in Elems :
            Classified(e) =>
              /\ (~Hidden(elem[e]) /\ elem[e].shopId \in Keys(B)) => Hidden(elem'[e])
              /\ (Hidden(elem[e]) /\ elem[e].shopId \notin Keys(B)) => ~Hidden(elem'[e])
              /\ bodyRuns'[e] = bodyRuns[e]]_vars

\* the round trip on shop X starts here: X is not blocked, every X-tagged
\* element is visible, and nothing is in flight
RoundTripPre(X) ==
  /\ listening /\ notifQ = <<>>
  /\ \A c \in Editors : edPc[c] = Idle
  /\ X \notin Keys(store.val)
  /\ \A e \in Elems :
       (Classified(e) /\ elem[e].shopId = X) => ~Hidden(elem[e]) /\ ~elem[e].blocked

\* what blockShop(X) and then unblockShop(X) write
AfterBlock(X) == SetProp(getAllBlocked(StorageGet(TRUE)), X, ShopRecord(X, ""))
AfterUnblock(X) == DeleteProp(AfterBlock(X), X)

\* the elements once the Reconciler has handled both notifications
RoundTripElems(X) ==
  onStorageChanged(onStorageChanged(elem, ChangeNotification(AfterBlock(X))),
                   ChangeNotification(AfterUnblock(X)))

\* C7: the round trip leaves X-tagged elements visible and
\* unmarked and the visibility of every other tagged element as it was.
C7_RoundTrip ==
  RoundTripPre(TabShop) =>
    \A e \in Elems :
      Classified(e) =>
        IF elem[e].shopId = TabShop
        THEN ~Hidden(RoundTripElems(TabShop)[e]) /\ ~RoundTripElems(TabShop)[e].blocked
        ELSE RoundTripElems(TabShop)[e].display = elem[e].display

\* C8: a Reconciler pass for Blocklist B leaves every element with a shopId
\* annotation hidden exactly when its shopId is a key of B, whatever it was
\* before, and a second pass with the same B changes nothing.
C8_ReconcilerRederives ==
  \A B \in AllBlocklists :
    LET once == onStorageChanged(elem, ChangeNotification(B))
    IN /\ \A e \in Elems :
            Classified(e) => (Hidden(once[e]) <=> elem[e].shopId \in Keys(B))
       /\ onStorageChanged(once, ChangeNotification(B)) = once

\* what the Extractor contract gives for a string built from the parts
ExpectedShopId(u) ==
  IF /\ u.scheme = <<SchemeTok>>
     /\ Len(u.labels) = 3
     /\ \A i \in 1..3 : u.labels[i] # BadLabel
     /\ ToLower(u.labels[2]) = "booth" /\ ToLower(u.labels[3]) = "pm"
     /\ ToLower(u.labels[1]) \notin {"accounts", "www"}
  THEN ToLower(u.labels[1]) ELSE null

C10_SnapshotFixed ==
  [][/\ snap.resolved => snap' = snap
     /\ Cardinality(batchSnaps') <= 1
     /\ batchSnaps' \subseteq {snap'.val}]_vars

\* two batches were classified while the persisted Blocklist had moved away
\* from the Snapshot and the Reconciler had run
C10_Witness ==
  /\ nBatches >= 2 /\ batches = <<>> /\ batchSnaps = {snap.val}
  /\ reconciled /\ commits >= 1
  /\ Keys(store.val) # Keys(snap.val)

\* the listing elements a batch reaches
Reached(cards) == {cards[i] : i \in 1..Len(cards)}

\* C11: a step that classifies an element while batches are pending is the
\* step of the oldest pending batch: it classifies elements of that batch
\* only, leaves every element of that batch processed, and takes the batch
\* off the queue, so no later batch is touched before it.
C11_BatchOrder ==
  [][(batches # <<>> /\ \E e \in Elems : ~elem[e].processed /\ elem'[e].processed) =>
       /\ batches' = Tail(batches)
       /\ \A e \in Elems :
            (~elem[e].processed /\ elem'[e].processed) => e \in Reached(Head(batches))
       /\ \A e \in Reached(Head(batches)) : elem'[e].processed]_vars

\* two batches arrived while the Snapshot fetch was pending; the first has
\* been classified, the second still waits with an unclassified element
C11_Witness ==
  /\ nBatches = 2 /\ Len(batches) = 1 /\ snap.resolved
  /\ \E e \in Reached(batches[1]) : ~elem[e].processed
  /\ \E e \in Elems : elem[e].processed /\ e \notin Reached(batches[1])

\* C15: an element carries the blocked marker exactly when it is hidden, and
\* an element with the blocked marker is processed and has a shopId.
C15_AnnotationConsistency ==
  \A e \in Elems :
    /\ elem[e].blocked <=> Hidden(elem[e])
    /\ elem[e].blocked => elem[e].processed /\ elem[e].shopId # null

\* after a Reconciler pass one classified element is hidden and marked and
\* another is visible and unmarked
C15_Witness ==
  /\ reconciled /\ notifQ = <<>>
  /\ \E e \in Elems : Classified(e) /\ Hidden(elem[e]) /\ elem[e].blocked
  /\ \E e \in Elems : Classified(e) /\ ~Hidden(elem[e]) /\ ~elem[e].blocked

\* C16: no step changes or removes a recorded shopId or the processed
\* marker, and a Reconciler pass changes only display and blocked marker.
C16_ShopIdStable ==
  [][\A e \in Elems :
       /\ elem[e].shopId # null => elem'[e].shopId = elem[e].shopId
       /\ elem[e].processed => elem'[e].processed
       /\ ReconcilerStep =>
            elem'[e] = [elem[e] EXCEPT !.display = elem'[e].display,
                                      !.blocked = elem'[e].blocked]]_vars

\* a classified element of a shop the Snapshot holds was reached again by a
\* batch and is visible after a Reconciler pass for a Blocklist without it
C16_Witness ==
  \E e \in Elems :
    /\ Classified(e) /\ again[e] /\ reconciled
    /\ ~Hidden(elem[e]) /\ elem[e].shopId = OldShop
    /\ snap.resolved /\ OldShop \in Keys(snap.val) /\ OldShop \notin Keys(store.val)

\* notifications the listing page's listener must ignore: another storage
\* area, or no change of the blockedShops key
IgnoredNotifications ==
  {n \in [area : {"local", "sync", "managed"}, hasKey : BOOLEAN,
          newValue : [has : {TRUE}, val : AllBlocklists]] :
     n.area # "local" \/ ~n.hasKey}

\* the blockedShops key was removed: the change carries no newValue
RemovedNotification ==
  [area |-> "local", hasKey |-> TRUE, newValue |-> [has |-> FALSE, val |-> EmptyObj]]

\* C17: a notification of another area or without a blockedShops change
\* changes no element; one whose newValue is absent leaves every element
\* with a shopId annotation visible.
C17_NotificationFiltering ==
  /\ \A n \in IgnoredNotifications : onStorageChanged(elem, n) = elem
  /\ \A e \in Elems :
       Classified(e) => ~Hidden(onStorageChanged(elem, RemovedNotification)[e])

\* the editing context's operation in flight ends in this step
Completes(e) == edPc[e] # Idle /\ edPc'[e] = Idle

\* C12: a key leaves the persisted Blocklist only in the step that completes
\* an unblock of that same shop, and enters it only in the step that
\* completes a blockShop of that same shop.
C12_DestroyedOnlyOnUnblock ==
  [][\A s \in ShopIds :
       /\ (s \in Keys(store.val) /\ s \notin Keys(store'.val)) =>
            \E e \in Editors :
              /\ Completes(e) /\ edPc[e].shopId = s
              /\ edPc[e].op \in {"unblockShop", "handleUnblock"}
       /\ (s \notin Keys(store.val) /\ s \in Keys(store'.val)) =>
            \E e \in Editors :
              Completes(e) /\ edPc[e].shopId = s /\ edPc[e].op = "blockShop"]_vars

\* C13: a blockShop, unblockShop or updateReason call during which the store
\* read or write failed returns false and leaves the persisted Blocklist as
\* it was; getAllBlocked and getShopInfo give the empty result on a failed
\* read.
C13_FailureReporting ==
  [][/\ \A e \in Editors :
          (Completes(e) /\ edPc[e].op \in BooleanOps /\ apiRet'[e].failed) =>
            apiRet'[e].value = "false" /\ store' = store
     /\ getAllBlocked(StorageGet(FALSE)) = EmptyObj
     /\ \A s \in StoreShops : getShopInfo(s, StorageGet(FALSE)).isNull]_vars

\* C14: the record of a shop that stays in the persisted Blocklist changes
\* only in the step that completes an updateReason for that shop, and then
\* its name and timestamp stay.
C14_MutatedOnlyByUpdateReason ==
  [][\A s \in StoreShops :
       (/\ s \in Keys(store.val) /\ s \in Keys(store'.val)
        /\ store'.val[s] # store.val[s]) =>
         /\ store'.val[s].name = store.val[s].name
         /\ store'.val[s].timestamp = store.val[s].timestamp
         /\ \E e \in Editors :
              Completes(e) /\ edPc[e].shopId = s /\ edPc[e].op = "updateReason"]_vars

\* C18: on a shop page whose init has completed and which has handled every
\* notification sent to it, the container holds exactly one toggle button
\* and its blocked state is (currentShopId is a key of the persisted
\* Blocklist).
C18_ToggleButtonConsistency ==
  (tabPc = "ready" /\ tabContainer /\ tabQ = <<>>) =>
    /\ Len(tabButtons) = 1
    /\ tabButtons[1] <=> TabShop \in Keys(store.val)

\* every notification is handled and every displayShopList has completed
PopupQuiet == popQ = <<>> /\ popReads = <<>>

\* one card per key of the persisted Blocklist and no other card, the count
\* is the number of cards, the empty-state panel shows exactly for no card
PopupConsistent ==
  /\ {popCards[i] : i \in 1..Len(popCards)} = Keys(store.val)
  /\ Len(popCards) = Cardinality(Keys(store.val))
  /\ popCount = Len(popCards)
  /\ popEmpty <=> popCount = 0

====
